---- MODULE Spec2Model ----
(***************************************************************************)
(* Model of the ezquadtree point quadtree (src/src/qt.rs, src/src/shape.rs) *)
(* with the item types of its doc examples and tests.                       *)
(*                                                                         *)
(* A node is the record [boundary, capacity, points, children]; children   *)
(* is None (<<>>) or Some of a 4-tuple of nodes (NW, NE, SW, SE).           *)
(* Every operation of QuadTree is a recursive operator that returns the     *)
(* node as the operation leaves it together with the operation's result.    *)
(***************************************************************************)
EXTENDS Integers, Sequences, FiniteSets, TLC

VARIABLES qt, partial_eq, prev, op, arg, ret, log, hist

vars == <<qt, partial_eq, prev, op, arg, ret, log, hist>>

----------------------------------------------------------------------------
(* Bounds of the model *)

MaxCoord == 1
MaxCap == 2
MaxSide == 4
MaxLen == 2
MaxInserts == 3
MaxOrigin == 1
MaxExtent == 2

----------------------------------------------------------------------------
(* Option<T> *)

None == <<>>
Some(v) == <<v>>

----------------------------------------------------------------------------
(* Items: the Foo of the tests and doc examples *)

Foo(x, y, item) == [item |-> item, x |-> x, y |-> y]

as_point(item) == <<item.x, item.y>>

\* PartialEq of the item type: "coord" is the hand-written impl of the doc
\* examples (x and y only), "derive" is #[derive(PartialEq)] of the tests.
eq(a, b) ==
    IF partial_eq = "coord"
    THEN a.x = b.x /\ a.y = b.y
    ELSE a.item = b.item /\ a.x = b.x /\ a.y = b.y

----------------------------------------------------------------------------
(* shape.rs: Rectangle *)

Rectangle(x, y, w, h) == [x |-> x, y |-> y, w |-> w, h |-> h]

Rectangle_contains_w_for_h(self, item) ==
    LET x == as_point(item)[1]
        y == as_point(item)[2]
    IN  /\ x >= self.x
        /\ x < self.x + self.w
        /\ y >= self.y
        /\ y < self.y + self.w

Rectangle_contains_inclusive(self, item) ==
    LET x == as_point(item)[1]
        y == as_point(item)[2]
    IN  /\ x >= self.x
        /\ x <= self.x + self.w
        /\ y >= self.y
        /\ y <= self.y + self.h

\* contains without the upper bound on y
Rectangle_contains_no_upper_y(self, item) ==
    LET x == as_point(item)[1]
        y == as_point(item)[2]
    IN  /\ x >= self.x
        /\ x < self.x + self.w
        /\ y >= self.y

Rectangle_contains(self, item) ==
    LET x == as_point(item)[1]
        y == as_point(item)[2]
    IN  /\ x >= self.x
        /\ x < self.x + self.w
        /\ y >= self.y
        /\ y < self.y + self.h

\* std::ops::Range<u32> as the record [start, end]
get_range_x(self) == [start |-> self.x, end |-> self.x + self.w]

get_range_y(self) == [start |-> self.y, end |-> self.y + self.h]

range_intersects_end_for_start(range1, range2) ==
    LET swap == range1.start > range2.start
        r1 == IF swap THEN range2 ELSE range1
        r2 == IF swap THEN range1 ELSE range2
    IN  r1.end > r2.end

range_intersects(range1, range2) ==
    LET swap == range1.start > range2.start
        r1 == IF swap THEN range2 ELSE range1
        r2 == IF swap THEN range1 ELSE range2
    IN  r1.end > r2.start

intersects(self, range) ==
    /\ range_intersects(get_range_x(self), get_range_x(range))
    /\ range_intersects(get_range_y(self), get_range_y(range))

----------------------------------------------------------------------------
(* qt.rs: QuadTree *)

new(boundary, capacity) ==
    [boundary |-> boundary, capacity |-> capacity,
     points |-> <<>>, children |-> None]

subdivide_full_offset(boundary, capacity) ==
    LET x == boundary.x
        y == boundary.y
        w == boundary.w \div 2
        h == boundary.h \div 2
        nw == Rectangle(x, y, w, h)
        ne == Rectangle(x + boundary.w, y, w, h)
        sw == Rectangle(x, y + boundary.h, w, h)
        se == Rectangle(x + boundary.w, y + boundary.h, w, h)
    IN  <<new(nw, capacity), new(ne, capacity),
          new(sw, capacity), new(se, capacity)>>

subdivide_h_not_halved(boundary, capacity) ==
    LET x == boundary.x
        y == boundary.y
        w == boundary.w \div 2
        h == boundary.h
        nw == Rectangle(x, y, w, h)
        ne == Rectangle(x + w, y, w, h)
        sw == Rectangle(x, y + h, w, h)
        se == Rectangle(x + w, y + h, w, h)
    IN  <<new(nw, capacity), new(ne, capacity),
          new(sw, capacity), new(se, capacity)>>

subdivide_east_at_x(boundary, capacity) ==
    LET x == boundary.x
        y == boundary.y
        w == boundary.w \div 2
        h == boundary.h \div 2
        nw == Rectangle(x, y, w, h)
        ne == Rectangle(x, y, w, h)
        sw == Rectangle(x, y + h, w, h)
        se == Rectangle(x, y + h, w, h)
    IN  <<new(nw, capacity), new(ne, capacity),
          new(sw, capacity), new(se, capacity)>>

subdivide(boundary, capacity) ==
    LET x == boundary.x
        y == boundary.y
        w == boundary.w \div 2
        h == boundary.h \div 2
        nw == Rectangle(x, y, w, h)
        ne == Rectangle(x + w, y, w, h)
        sw == Rectangle(x, y + h, w, h)
        se == Rectangle(x + w, y + h, w, h)
    IN  <<new(nw, capacity), new(ne, capacity),
          new(sw, capacity), new(se, capacity)>>

\* Vec<T>::contains, by the item type's PartialEq
Vec_contains(points, item) ==
    \E i \in 1..Len(points) : eq(points[i], item)

\* Vec<T>::remove(idx), idx counted from 1
Vec_remove(points, idx) ==
    [i \in 1..(Len(points) - 1) |->
        IF i < idx THEN points[i] ELSE points[i + 1]]

\* self.points.iter().position(|x| x.as_point() == item.as_point())
position_x_only(points, item) ==
    LET hits == {i \in 1..Len(points) : points[i].x = item.x}
    IN  IF hits = {} THEN None
        ELSE Some(CHOOSE i \in hits : \A j \in hits : i <= j)

position(points, item) ==
    LET hits == {i \in 1..Len(points) : as_point(points[i]) = as_point(item)}
    IN  IF hits = {} THEN None
        ELSE Some(CHOOSE i \in hits : \A j \in hits : i <= j)

\* the two statements of replace that swap the old item for the new one
swap_out_keeps_old(points, idx, item) ==
    Append(Vec_remove(points, idx), points[idx])

swap_out(points, idx, item) ==
    Append(Vec_remove(points, idx), item)

\* Option<[Box<QuadTree<T>>; 4]>::iter().flatten(): the children, if any
flatten(children) == IF children = None THEN <<>> ELSE children[1]

RECURSIVE replace(_, _), replace_find_map(_, _, _)

\* self.children.iter_mut().flatten().find_map(|child| child.replace(item))
replace_find_map(children, i, item) ==
    IF i > Len(children)
    THEN [children |-> children, ret |-> None]
    ELSE LET r == replace(children[i], item)
             c == [children EXCEPT ![i] = r.node]
         IN  IF r.ret # None
             THEN [children |-> c, ret |-> r.ret]
             ELSE replace_find_map(c, i + 1, item)

replace(self, item) ==
    IF ~Rectangle_contains(self.boundary, item)
    THEN [node |-> self, ret |-> None]
    ELSE LET idx == position(self.points, item)
         IN  IF idx # None
             THEN [node |-> [self EXCEPT
                                !.points = swap_out(@, idx[1], item)],
                   ret |-> Some(self.points[idx[1]])]
             ELSE LET r == replace_find_map(flatten(self.children), 1, item)
                  IN  [node |-> [self EXCEPT
                                   !.children = IF @ = None THEN None
                                                ELSE Some(r.children)],
                       ret |-> r.ret]

\* the first condition of the push branch of insert
has_room_or_full(self) == Len(self.points) <= self.capacity

has_room(self) == Len(self.points) < self.capacity

RECURSIVE insert(_, _), insert_any(_, _, _)

\* children.iter_mut().any(|c| c.insert(item))
insert_any(children, i, item) ==
    IF i > Len(children)
    THEN [children |-> children, ret |-> FALSE]
    ELSE LET r == insert(children[i], item)
             c == [children EXCEPT ![i] = r.node]
         IN  IF r.ret
             THEN [children |-> c, ret |-> TRUE]
             ELSE insert_any(c, i + 1, item)

\* insert with the `return true` of the push branch left out
insert_fall_through(self, item) ==
    IF ~Rectangle_contains(self.boundary, item)
    THEN [node |-> self, ret |-> FALSE]
    ELSE LET pushed == has_room(self) /\ ~Vec_contains(self.points, item)
             s == IF pushed
                  THEN [self EXCEPT !.points = Append(@, item)]
                  ELSE self
         IN  IF Len(s.points) = s.capacity
             THEN LET ch == IF s.children = None
                            THEN subdivide(s.boundary, s.capacity)
                            ELSE s.children[1]
                      r == insert_any(ch, 1, item)
                  IN  [node |-> [s EXCEPT !.children = Some(r.children)],
                       ret |-> r.ret]
             ELSE [node |-> s, ret |-> FALSE]

\* insert that also subdivides as soon as a push fills the node
insert_eager_subdivide(self, item) ==
    IF ~Rectangle_contains(self.boundary, item)
    THEN [node |-> self, ret |-> FALSE]
    ELSE IF has_room(self) /\ ~Vec_contains(self.points, item)
    THEN [node |-> [self EXCEPT
                      !.points = Append(@, item),
                      !.children =
                          IF Len(self.points) + 1 = self.capacity /\ @ = None
                          THEN Some(subdivide(self.boundary, self.capacity))
                          ELSE @],
          ret |-> TRUE]
    ELSE IF Len(self.points) = self.capacity
    THEN LET ch == IF self.children = None
                   THEN subdivide(self.boundary, self.capacity)
                   ELSE self.children[1]
             r == insert_any(ch, 1, item)
         IN  [node |-> [self EXCEPT !.children = Some(r.children)],
              ret |-> r.ret]
    ELSE [node |-> self, ret |-> FALSE]

insert(self, item) ==
    IF ~Rectangle_contains(self.boundary, item)
    THEN [node |-> self, ret |-> FALSE]
    ELSE IF has_room(self) /\ ~Vec_contains(self.points, item)
    THEN [node |-> [self EXCEPT !.points = Append(@, item)], ret |-> TRUE]
    ELSE IF Len(self.points) = self.capacity
    THEN LET ch == IF self.children = None
                   THEN subdivide(self.boundary, self.capacity)
                   ELSE self.children[1]
             r == insert_any(ch, 1, item)
         IN  [node |-> [self EXCEPT !.children = Some(r.children)],
              ret |-> r.ret]
    ELSE [node |-> self, ret |-> FALSE]

RECURSIVE insert_calls(_, _, _)

\* the calls of insert that insert(self, item) makes, itself included: the
\* path of each node called and the node as the call finds it
insert_calls(self, item, path) ==
    {[path |-> path, node |-> self]}
    \cup (IF /\ Rectangle_contains(self.boundary, item)
             /\ ~(has_room(self) /\ ~Vec_contains(self.points, item))
             /\ Len(self.points) = self.capacity
          THEN LET ch == IF self.children = None
                         THEN subdivide(self.boundary, self.capacity)
                         ELSE self.children[1]
                   called == {i \in 1..4 :
                                 \A j \in 1..(i - 1) : ~insert(ch[j], item).ret}
               IN  UNION {insert_calls(ch[i], item, Append(path, i)) :
                              i \in called}
          ELSE {})

\* self.points.iter().filter(|p| *p != item).map(Clone::clone).collect()
filter_ne(points, item) ==
    SelectSeq(points, LAMBDA p : ~eq(p, item))

RECURSIVE remove(_, _), remove_for(_, _, _)

\* for child in c.iter_mut() { if child.remove(item) { return true; } }
remove_for(children, i, item) ==
    IF i > Len(children)
    THEN [children |-> children, ret |-> FALSE]
    ELSE LET r == remove(children[i], item)
             c == [children EXCEPT ![i] = r.node]
         IN  IF r.ret
             THEN [children |-> c, ret |-> TRUE]
             ELSE remove_for(c, i + 1, item)

\* remove that frees the children once the last of their items is gone
remove_prunes_empty(self, item) ==
    IF Vec_contains(self.points, item)
    THEN [node |-> [self EXCEPT !.points = filter_ne(@, item)], ret |-> TRUE]
    ELSE IF self.children # None
    THEN LET r == remove_for(self.children[1], 1, item)
             empty == \A i \in 1..4 : /\ r.children[i].points = <<>>
                                       /\ r.children[i].children = None
         IN  [node |-> [self EXCEPT
                          !.children = IF r.ret /\ empty THEN None
                                       ELSE Some(r.children)],
              ret |-> r.ret]
    ELSE [node |-> self, ret |-> FALSE]

remove(self, item) ==
    IF Vec_contains(self.points, item)
    THEN [node |-> [self EXCEPT !.points = filter_ne(@, item)], ret |-> TRUE]
    ELSE IF self.children # None
    THEN LET r == remove_for(self.children[1], 1, item)
         IN  [node |-> [self EXCEPT !.children = Some(r.children)],
              ret |-> r.ret]
    ELSE [node |-> self, ret |-> FALSE]

RECURSIVE query(_, _), query_for_each(_, _, _)

\* c.iter().for_each(|c| c.query(Some(&range), func))
query_for_each(children, i, range) ==
    IF i > Len(children) THEN <<>>
    ELSE query(children[i], Some(range)) \o query_for_each(children, i + 1, range)

\* the sequence of items func is called with, in call order
query_children_first(self, range_opt) ==
    LET range == IF range_opt = None THEN self.boundary ELSE range_opt[1]
    IN  IF ~intersects(range, self.boundary)
        THEN <<>>
        ELSE query_for_each(flatten(self.children), 1, range)
             \o SelectSeq(self.points, LAMBDA p : Rectangle_contains(range, p))

query(self, range_opt) ==
    LET range == IF range_opt = None THEN self.boundary ELSE range_opt[1]
    IN  IF ~intersects(range, self.boundary)
        THEN <<>>
        ELSE SelectSeq(self.points, LAMBDA p : Rectangle_contains(range, p))
             \o query_for_each(flatten(self.children), 1, range)

RECURSIVE len(_), len_fold(_, _)

\* c.iter().fold(0, |x, c| x + c.len())
len_fold_drops_accumulator(children, i) ==
    IF i > Len(children) THEN 0
    ELSE len(children[Len(children)])

len_fold(children, i) ==
    IF i > Len(children) THEN 0
    ELSE len(children[i]) + len_fold(children, i + 1)

len(self) ==
    Len(self.points)
    + (IF self.children = None THEN 0 ELSE len_fold(self.children[1], 1))

is_empty(self) == len(self) = 0

RECURSIVE contains(_, _)

contains_own_points_only(self, item) ==
    Vec_contains(self.points, item)

contains(self, item) ==
    IF Vec_contains(self.points, item) THEN TRUE
    ELSE IF self.children # None
    THEN \E i \in 1..4 : contains(self.children[1][i], item)
    ELSE FALSE

----------------------------------------------------------------------------
(* The program: a tree built by QuadTree::new and driven by a caller that   *)
(* calls one operation at a time and then drops what it returned.           *)

Coords == 0..MaxCoord
Payloads == {"old", "new"}

\* Item locations: the diagonal, and one more on the row y = 0 (the row of
\* create_foo) that shares its x with a diagonal one
Points == {<<x, x>> : x \in Coords} \cup {<<1, 0>>}
Items == {Foo(p[1], p[2], s) : p \in Points, s \in Payloads}

\* Root boundaries: an even-sided and an odd-sided square at the origin, a
\* rectangle that is not square, a square away from the origin, and a
\* rectangle of zero width
Boundaries ==
    {Rectangle(0, 0, MaxSide, MaxSide),
     Rectangle(0, 0, MaxSide - 1, MaxSide - 1),
     Rectangle(0, 0, 2, 1),
     Rectangle(1, 1, 2, 2),
     Rectangle(0, 0, 0, 1)}

\* Query windows: inside the root boundary, overlapping it, covering it,
\* disjoint from it, and of zero width
Ranges ==
    {Rectangle(0, 0, 1, 1),
     Rectangle(1, 1, 1, 1),
     Rectangle(1, 0, MaxSide, 1),
     Rectangle(0, 0, MaxSide + 1, MaxSide + 1),
     Rectangle(1, 1, MaxSide + 1, MaxSide + 1),
     Rectangle(MaxSide + 1, MaxSide + 1, 1, 1),
     Rectangle(0, 0, 0, MaxSide)}

\* hist: the paths of the nodes insert was called on while they held exactly
\* capacity items (at_capacity), and of those the ones whose boundary
\* contained the item (inside)
NoHistory == [at_capacity |-> {}, inside |-> {}]

Init ==
    /\ partial_eq \in {"coord", "derive"}
    /\ \E b \in Boundaries, c \in 0..MaxCap : qt = new(b, c)
    /\ prev = qt
    /\ op = "idle"
    /\ arg = None
    /\ ret = None
    /\ log = <<>>
    /\ hist = NoHistory

Insert(item) ==
    /\ op = "idle"
    /\ len(qt) < MaxLen
    /\ LET r == insert(qt, item)
       IN  /\ qt' = r.node
           /\ ret' = r.ret
    /\ prev' = qt
    /\ op' = "insert"
    /\ arg' = item
    /\ UNCHANGED <<partial_eq, log, hist>>

Remove(item) ==
    /\ op = "idle"
    /\ LET r == remove(qt, item)
       IN  /\ qt' = r.node
           /\ ret' = r.ret
    /\ prev' = qt
    /\ op' = "remove"
    /\ arg' = item
    /\ UNCHANGED <<partial_eq, log, hist>>

Replace(item) ==
    /\ op = "idle"
    /\ LET r == replace(qt, item)
       IN  /\ qt' = r.node
           /\ ret' = r.ret
    /\ prev' = qt
    /\ op' = "replace"
    /\ arg' = item
    /\ UNCHANGED <<partial_eq, log, hist>>

Query(range_opt) ==
    /\ op = "idle"
    /\ ret' = query(qt, range_opt)
    /\ prev' = qt
    /\ op' = "query"
    /\ arg' = range_opt
    /\ UNCHANGED <<qt, partial_eq, log, hist>>

Contains(item) ==
    /\ op = "idle"
    /\ ret' = contains(qt, item)
    /\ prev' = qt
    /\ op' = "contains"
    /\ arg' = item
    /\ UNCHANGED <<qt, partial_eq, log, hist>>

\* the caller is done with the value an operation returned
Drop ==
    /\ op # "idle"
    /\ op' = "idle"
    /\ arg' = None
    /\ ret' = None
    /\ prev' = qt
    /\ UNCHANGED <<qt, partial_eq, log, hist>>

Next ==
    \/ \E item \in Items : Insert(item)
    \/ \E item \in Items : Remove(item)
    \/ \E item \in Items : Replace(item)
    \/ \E r \in Ranges : Query(Some(r))
    \/ Query(None)
    \/ \E item \in Items : Contains(item)
    \/ Drop

Spec == Init /\ [][Next]_vars

\* insert_foo: a fresh tree filled by inserts alone, each item at a location
\* of its own inside the root boundary; log keeps the items and the results
InsertFoo(item) ==
    /\ Len(log) < MaxInserts
    /\ Rectangle_contains(qt.boundary, item)
    /\ \A i \in 1..Len(log) : as_point(log[i].item) # as_point(item)
    /\ LET r == insert(qt, item)
       IN  /\ qt' = r.node
           /\ ret' = r.ret
           /\ log' = Append(log, [item |-> item, ret |-> r.ret])
    /\ prev' = qt
    /\ op' = "insert"
    /\ arg' = item
    /\ UNCHANGED <<partial_eq, hist>>

NextInsertFoo == \E item \in Items : InsertFoo(item)

SpecInsertFoo == Init /\ [][NextInsertFoo]_vars

\* insert, with the record of the nodes it was called on at capacity
InsertTracked(item) ==
    /\ op = "idle"
    /\ len(qt) < MaxLen
    /\ LET r == insert(qt, item)
           full == {c \in insert_calls(qt, item, <<>>) :
                       Len(c.node.points) = c.node.capacity}
       IN  /\ qt' = r.node
           /\ ret' = r.ret
           /\ hist' = [at_capacity |->
                          hist.at_capacity \cup {c.path : c \in full},
                       inside |->
                          hist.inside \cup
                          {c.path : c \in {d \in full :
                              Rectangle_contains(d.node.boundary, item)}}]
    /\ prev' = qt
    /\ op' = "insert"
    /\ arg' = item
    /\ UNCHANGED <<partial_eq, log>>

NextHistory ==
    \/ \E item \in Items : InsertTracked(item)
    \/ \E item \in Items : Remove(item)
    \/ \E item \in Items : Replace(item)
    \/ Drop

SpecHistory == Init /\ [][NextHistory]_vars

----------------------------------------------------------------------------
(* The geometry on its own: two rectangles are drawn, and a caller applies  *)
(* one function of shape.rs, or subdivide, to them.                         *)

Rects ==
    {Rectangle(x, y, w, h) : x \in 0..MaxOrigin, y \in 0..MaxOrigin,
                             w \in 0..MaxExtent, h \in 0..MaxExtent}

InitShape ==
    /\ partial_eq = "coord"
    /\ qt = new(Rectangle(0, 0, MaxSide, MaxSide), MaxCap)
    /\ prev = qt
    /\ op = "idle"
    /\ arg \in Rects \X Rects
    /\ ret = None
    /\ log = <<>>
    /\ hist = NoHistory

RectIntersects ==
    /\ op = "idle"
    /\ ret' = intersects(arg[1], arg[2])
    /\ op' = "intersects"
    /\ UNCHANGED <<qt, partial_eq, prev, arg, log, hist>>

RectContains(item) ==
    /\ op = "idle"
    /\ ret' = Rectangle_contains(arg[1], item)
    /\ op' = "rect_contains"
    /\ arg' = <<arg[1], item>>
    /\ UNCHANGED <<qt, partial_eq, prev, log, hist>>

Subdivide ==
    /\ op = "idle"
    /\ ret' = subdivide(arg[1], qt.capacity)
    /\ op' = "subdivide"
    /\ UNCHANGED <<qt, partial_eq, prev, arg, log, hist>>

NextShape ==
    \/ RectIntersects
    \/ \E item \in Items : RectContains(item)
    \/ Subdivide

SpecShape == InitShape /\ [][NextShape]_vars

----------------------------------------------------------------------------
(* Vocabulary of the properties *)

RECURSIVE stored(_), stored_in(_, _)

\* every item held anywhere in the tree, node before children
stored_in(children, i) ==
    IF i > Len(children) THEN <<>>
    ELSE stored(children[i]) \o stored_in(children, i + 1)

stored(self) == self.points \o stored_in(flatten(self.children), 1)

RECURSIVE NodesAt(_, _)

\* the nodes of a tree, each with its path from the root
NodesAt(self, path) ==
    {[path |-> path, node |-> self]}
    \cup (IF self.children = None THEN {}
          ELSE UNION {NodesAt(self.children[1][i], Append(path, i)) : i \in 1..4})

Nodes(tree) == NodesAt(tree, <<>>)

Paths(tree) == {n.path : n \in Nodes(tree)}

\* the items a tree holds at a path; nothing where it has no node
PointsAt(tree, path) ==
    IF path \in Paths(tree)
    THEN (CHOOSE n \in Nodes(tree) : n.path = path).node.points
    ELSE <<>>

Elems(s) == {s[i] : i \in 1..Len(s)}

Count(s, e) == Cardinality({i \in 1..Len(s) : s[i] = e})

SameBag(s, t) == \A e \in Elems(s) \cup Elems(t) : Count(s, e) = Count(t, e)

SameLocation(a, b) == a.x = b.x /\ a.y = b.y

\* the point of an item lies in the half-open region
InRegion(r, item) ==
    /\ r.x <= item.x /\ item.x < r.x + r.w
    /\ r.y <= item.y /\ item.y < r.y + r.h

LocationStored(tree, item) ==
    \E e \in Elems(stored(tree)) : SameLocation(e, item)

HasGrandchildren(tree) ==
    /\ tree.children # None
    /\ \E i \in 1..4 : tree.children[1][i].children # None

----------------------------------------------------------------------------
(* C1 *)

\* C1: an insert of an item whose coordinates equal those of an item stored
\* anywhere in the tree returns false and does not increase len().
C1_DuplicateLocationRejected ==
    (op = "insert" /\ LocationStored(prev, arg))
        => (ret = FALSE /\ len(qt) <= len(prev))

----------------------------------------------------------------------------
(* C2 *)

AllAccepted == \A i \in 1..Len(log) : log[i].ret

LogItems == [i \in 1..Len(log) |-> log[i].item]

RoundTrip ==
    /\ AllAccepted
    /\ len(qt) = Len(log)
    /\ SameBag(query(qt, Some(qt.boundary)), LogItems)
    /\ \A e \in Elems(LogItems) : Count(query(qt, Some(qt.boundary)), e) = 1

\* C2 as stated: from an empty tree of any boundary and any capacity >= 1,
\* inserts of items at pairwise distinct locations inside the root boundary
\* all return true, len() is their number and a query over the full boundary
\* visits each exactly once.
C2_RoundTripAnyBoundary ==
    qt.capacity >= 1 => RoundTrip

IsPowerOfTwo(n) == \E k \in 0..n : 2 ^ k = n

\* C2 amended: the same, for a root boundary that is a square whose side is
\* a power of two.
C2_RoundTripPowerOfTwoSquare ==
    (/\ qt.capacity >= 1
     /\ qt.boundary.w = qt.boundary.h
     /\ IsPowerOfTwo(qt.boundary.w))
        => RoundTrip

C2_Witness ==
    /\ qt.capacity >= 1
    /\ qt.boundary.w = qt.boundary.h
    /\ IsPowerOfTwo(qt.boundary.w)
    /\ Len(log) = 3
    /\ HasGrandchildren(qt)
    /\ Len(qt.points) = 1
    /\ len(qt) = 3

----------------------------------------------------------------------------
(* C3 *)

\* C3: query(Some(region), visit) calls visit exactly once for each stored
\* item whose point lies in the half-open region and for no other item; a
\* region disjoint from the root boundary yields no visit.
C3_QueryVisitsRegion ==
    (op = "query" /\ arg # None)
        => /\ SameBag(ret, SelectSeq(stored(qt),
                                     LAMBDA e : InRegion(arg[1], e)))
           /\ (\A e \in Elems(stored(qt)) : ~InRegion(arg[1], e))
                  => ret = <<>>

C3_Witness ==
    /\ op = "query"
    /\ arg # None
    /\ qt.children # None
    /\ Len(ret) = 1
    /\ len(qt) = 2
    /\ ret[1] \notin Elems(qt.points)

----------------------------------------------------------------------------
(* C4 *)

\* C4: remove(item) returns true iff an item equal to item is stored in the
\* tree; on true len() decreases by exactly 1, on false the tree is
\* unchanged.
C4_RemoveExactlyOne ==
    op = "remove"
        => /\ ret = (\E e \in Elems(stored(prev)) : eq(e, arg))
           /\ ret = TRUE => len(qt) = len(prev) - 1
           /\ ret = FALSE => qt = prev

----------------------------------------------------------------------------
(* C5 *)

\* C5: when some stored item has the coordinates of item, replace(item)
\* returns Some(old) with old a stored item at those coordinates, len() is
\* unchanged, the stored items are the previous ones with old taken out and
\* item put in, and a full query yields item.
C5_ReplaceSwaps ==
    (op = "replace" /\ LocationStored(prev, arg))
        => /\ ret # None
           /\ ret[1] \in Elems(stored(prev))
           /\ SameLocation(ret[1], arg)
           /\ len(qt) = len(prev)
           /\ SameBag(stored(qt) \o <<ret[1]>>, stored(prev) \o <<arg>>)
           /\ arg \in Elems(query(qt, None))

C5_Witness ==
    /\ op = "replace"
    /\ LocationStored(prev, arg)
    /\ ret # None
    /\ ret[1] # arg
    /\ ~LocationStored(new(prev.boundary, prev.capacity), arg)
    /\ \A e \in Elems(prev.points) : ~SameLocation(e, arg)
    /\ len(qt) = 2

----------------------------------------------------------------------------
(* C6 *)

\* C6: when no stored item has the coordinates of item, or item lies outside
\* the root boundary, replace(item) returns None and the tree is unchanged.
C6_ReplaceNoMatchIsNoOp ==
    (/\ op = "replace"
     /\ \/ ~LocationStored(prev, arg)
        \/ ~InRegion(prev.boundary, arg))
        => (ret = None /\ qt = prev)

C6_Witness ==
    /\ op = "replace"
    /\ ~LocationStored(prev, arg)
    /\ InRegion(prev.boundary, arg)
    /\ prev.children # None
    /\ len(prev) = 2
    /\ \E e \in Elems(stored(prev)) : e.x = arg.x

----------------------------------------------------------------------------
(* C7 *)

GainsAt(path) ==
    /\ PointsAt(qt, path) = Append(PointsAt(prev, path), arg)
    /\ \A q \in Paths(qt) \cup Paths(prev) :
           q # path => PointsAt(qt, q) = PointsAt(prev, q)

\* C7: insert returns true iff the item was stored: on true exactly one node
\* gains exactly the item and len() grows by 1; on false the items of every
\* node and len() are unchanged.
C7_InsertTrueIffStored ==
    op = "insert"
        => /\ ret = TRUE =>
                /\ \E p \in Paths(qt) : GainsAt(p)
                /\ len(qt) = len(prev) + 1
           /\ ret = FALSE =>
                /\ \A q \in Paths(qt) \cup Paths(prev) :
                       PointsAt(qt, q) = PointsAt(prev, q)
                /\ len(qt) = len(prev)

C7_Witness ==
    /\ op = "insert"
    /\ ret = TRUE
    /\ prev.children = None
    /\ qt.children # None
    /\ qt.points = prev.points
    /\ len(qt) = 2

----------------------------------------------------------------------------
(* C8 *)

\* C8: insert of an item whose point is outside the root boundary returns
\* false and leaves the tree unchanged, whatever the root holds.
C8_InsertOutsideIsNoOp ==
    (op = "insert" /\ ~InRegion(prev.boundary, arg))
        => (ret = FALSE /\ qt = prev)

C8_Witness ==
    /\ op = "insert"
    /\ ~InRegion(prev.boundary, arg)
    /\ prev.capacity >= 1
    /\ Len(prev.points) = prev.capacity
    /\ arg.y = prev.boundary.y + prev.boundary.h

----------------------------------------------------------------------------
(* C9 *)

\* C9: no node's item list holds two items with equal coordinates, whatever
\* the item type's equality compares.
C9_NoNodeHoldsTwoAtOneLocation ==
    \A n \in Nodes(qt) :
        \A i, j \in 1..Len(n.node.points) :
            SameLocation(n.node.points[i], n.node.points[j]) => i = j

----------------------------------------------------------------------------
(* C10 *)

\* C10: every node of the tree holds at most capacity items, for every
\* capacity including 0.
C10_NodeWithinCapacity ==
    \A n \in Nodes(qt) : Len(n.node.points) <= n.node.capacity

C10_Witness ==
    /\ op = "insert"
    /\ prev.capacity >= 1
    /\ Len(prev.points) = prev.capacity
    /\ InRegion(prev.boundary, arg)
    /\ Len(qt.points) = qt.capacity
    /\ qt.children # None

----------------------------------------------------------------------------
(* C11 *)

\* C11: len() is the number of items held by the root and all descendants
\* and the number of visits of query(None, visit) on the root; is_empty() is
\* true exactly when that number is 0.  (Every reachable tree is the tree of
\* a state in which the caller holds no result; it is checked there.)
C11_LenCountsEveryItem ==
    op = "idle"
        => /\ len(qt) = Len(stored(qt))
           /\ len(qt) = Len(query(qt, None))
           /\ is_empty(qt) = (Len(stored(qt)) = 0)

C11_Witness ==
    /\ op = "idle"
    /\ qt.children # None
    /\ Len(qt.points) = 1
    /\ len(qt) = 2
    /\ Len(query(qt, None)) = 2
    /\ ~is_empty(qt)

----------------------------------------------------------------------------
(* C12 *)

\* C12: contains(item) is true iff an item equal to item is stored in the
\* root or a descendant, which is exactly when remove(item) would return
\* true, and contains leaves the tree unchanged.
C12_ContainsIffStored ==
    op = "contains"
        => /\ ret = (\E e \in Elems(stored(prev)) : eq(e, arg))
           /\ ret = remove(prev, arg).ret
           /\ qt = prev

C12_Witness ==
    /\ op = "contains"
    /\ ret = TRUE
    /\ ~Vec_contains(qt.points, arg)
    /\ len(qt) = 2
    /\ \E e \in Elems(stored(qt)) : ~eq(e, arg)

----------------------------------------------------------------------------
(* C13 *)

\* the children of every node sit in the order NW, NE, SW, SE
ChildrenInQuadrantOrder(tree) ==
    \A n \in Nodes(tree) :
        n.node.children # None =>
            LET b == n.node.boundary
                c == n.node.children[1]
                w == b.w \div 2
                h == b.h \div 2
            IN  /\ c[1].boundary = Rectangle(b.x, b.y, w, h)
                /\ c[2].boundary = Rectangle(b.x + w, b.y, w, h)
                /\ c[3].boundary = Rectangle(b.x, b.y + h, w, h)
                /\ c[4].boundary = Rectangle(b.x + w, b.y + h, w, h)

QueryWindow == IF arg = None THEN qt.boundary ELSE arg[1]

----------------------------------------------------------------------------
(* C14 *)

RECURSIVE Halvings(_)

\* how many times n is halved, rounding down, until it is 0
Halvings(n) == IF n = 0 THEN 0 ELSE 1 + Halvings(n \div 2)

Min(a, b) == IF a < b THEN a ELSE b

Returned ==
    /\ op \in {"insert", "remove", "contains"} => ret \in BOOLEAN
    /\ op = "replace" => (ret = None \/ ret[1] \in Items)
    /\ op = "query" => \A i \in 1..Len(ret) : ret[i] \in Items

\* C14: every operation returns, for every capacity including 0 and every
\* boundary including those of zero width or height: the recursion of insert
\* only descends into nodes it has halved, a node of zero width or height is
\* never subdivided, and so no node lies deeper than the number of times the
\* smaller extent of the root can be halved.
C14_SubdivisionEnds ==
    /\ Returned
    /\ op = "insert" =>
           \A n \in Nodes(qt) :
               /\ Len(n.path) <= Halvings(Min(qt.boundary.w, qt.boundary.h))
               /\ n.node.children # None =>
                      (n.node.boundary.w >= 1 /\ n.node.boundary.h >= 1)

C14_Witness ==
    /\ op = "insert"
    /\ ret = FALSE
    /\ qt.capacity = 0
    /\ InRegion(qt.boundary, arg)
    /\ prev.children = None
    /\ \E n \in Nodes(qt) :
           /\ n.node.boundary.h = 0
           /\ Len(n.path) = Halvings(Min(qt.boundary.w, qt.boundary.h))
           /\ Len(n.path) >= 2

----------------------------------------------------------------------------
(* C15 *)

\* the half-open intervals [s1, e1) and [s2, e2) have a point in common
IntervalsShare(s1, e1, s2, e2) ==
    \E p \in 0..(MaxOrigin + MaxExtent) :
        /\ s1 <= p /\ p < e1
        /\ s2 <= p /\ p < e2

RectsOverlap(a, b) ==
    /\ IntervalsShare(a.x, a.x + a.w, b.x, b.x + b.w)
    /\ IntervalsShare(a.y, a.y + a.h, b.y, b.y + b.h)

\* C15: intersects(a, b) is true iff the half-open x intervals of a and b
\* share a point and their half-open y intervals share a point, also for
\* rectangles of zero width or height.
C15_IntersectsIffOverlap ==
    op = "intersects" => ret = RectsOverlap(arg[1], arg[2])

----------------------------------------------------------------------------
(* C16 *)

\* C16: intersects is symmetric: a.intersects(b) = b.intersects(a) for all
\* rectangles, equal origins and zero extents included.
C16_IntersectsSymmetric ==
    op = "intersects" => ret = intersects(arg[2], arg[1])

----------------------------------------------------------------------------
(* C17 *)

\* C17: contains is true iff x <= px < x+w and y <= py < y+h: a point on the
\* lower edges is inside, a point on the upper edge x+w or y+h is not.
C17_ContainsHalfOpen ==
    op = "rect_contains"
        => LET r == arg[1]
               item == arg[2]
           IN  /\ ret = InRegion(r, item)
               /\ (item.x = r.x + r.w \/ item.y = r.y + r.h) => ret = FALSE
               /\ (item.x = r.x /\ item.y = r.y /\ r.w >= 1 /\ r.h >= 1)
                      => ret = TRUE

C17_Witness ==
    /\ op = "rect_contains"
    /\ arg[1].w >= 1
    /\ arg[1].h >= 1
    /\ arg[2].x = arg[1].x + arg[1].w
    /\ arg[2].y = arg[1].y
    /\ ret = FALSE

----------------------------------------------------------------------------
(* C18 *)

GridItems ==
    {Foo(x, y, "old") : x \in 0..(MaxOrigin + MaxExtent),
                        y \in 0..(MaxOrigin + MaxExtent)}

ChildrenHolding(children, item) ==
    {i \in 1..Len(children) : Rectangle_contains(children[i].boundary, item)}

----------------------------------------------------------------------------
(* C19 *)

WithChildren(tree) == {n.path : n \in {m \in Nodes(tree) : m.node.children # None}}

\* C19 as stated: a node has children iff at some earlier step it held
\* exactly capacity items and then received a further insert attempt.
C19_ChildrenIffAttemptAtCapacity ==
    WithChildren(qt) = hist.at_capacity

\* C19 amended: a node has children iff at some earlier step it held
\* exactly capacity items and then received a further insert attempt of an
\* item whose point lies inside the node's boundary.
C19_ChildrenIffInsideAttemptAtCapacity ==
    WithChildren(qt) = hist.inside

C19_Witness ==
    /\ op = "insert"
    /\ prev.children = None
    /\ <<>> \in hist.inside
    /\ qt.children # None
    /\ \E p \in hist.at_capacity : p # <<>> /\ p \notin hist.inside
    /\ Len(qt.points) = qt.capacity

----------------------------------------------------------------------------
(* C20 *)

RECURSIVE Grown(_, _), SameNodes(_, _), OneCapacity(_, _)

\* after has every node of before, with the boundary, the capacity and, where before
\* has them, the children before has
Grown(before, after) ==
    /\ after.boundary = before.boundary
    /\ after.capacity = before.capacity
    /\ before.children # None =>
           /\ after.children # None
           /\ \A i \in 1..4 : Grown(before.children[1][i], after.children[1][i])

\* before and after have the same nodes
SameNodes(before, after) ==
    /\ (before.children = None) = (after.children = None)
    /\ before.children # None =>
           \A i \in 1..4 : SameNodes(before.children[1][i], after.children[1][i])

OneCapacity(tree, capacity) ==
    /\ tree.capacity = capacity
    /\ tree.children # None =>
           \A i \in 1..4 : OneCapacity(tree.children[1][i], capacity)

\* C20: the structure only grows: across every step every node keeps its
\* boundary and its capacity and a node that has children keeps them;
\* remove and replace neither create nor delete nodes; every child has the
\* capacity of its parent.
C20_StructureOnlyGrows ==
    op \in {"insert", "remove", "replace"}
        => /\ Grown(prev, qt)
           /\ op \in {"remove", "replace"} => SameNodes(prev, qt)
           /\ OneCapacity(qt, prev.capacity)

C20_Witness ==
    /\ op = "remove"
    /\ ret = TRUE
    /\ prev.points = <<>>
    /\ len(qt) = 0
    /\ qt.children # None

----------------------------------------------------------------------------
(* C21 *)

\* the rectangle inner lies inside the rectangle outer
RectInside(inner, outer) ==
    /\ outer.x <= inner.x /\ inner.x + inner.w <= outer.x + outer.w
    /\ outer.y <= inner.y /\ inner.y + inner.h <= outer.y + outer.h

RECURSIVE Enclosed(_)

\* every item of every node lies in the node's boundary and every child's
\* boundary lies inside its parent's
Enclosed(tree) ==
    /\ \A i \in 1..Len(tree.points) : InRegion(tree.boundary, tree.points[i])
    /\ tree.children # None =>
           \A i \in 1..4 : /\ RectInside(tree.children[1][i].boundary, tree.boundary)
                           /\ Enclosed(tree.children[1][i])

\* C21: in every state reached by insert, remove and replace, every item
\* stored in a node has its point inside that node's boundary and every
\* child's boundary lies inside its parent's boundary; hence every stored
\* item lies inside the root boundary.
C21_ItemsInsideBoundaries ==
    /\ Enclosed(qt)
    /\ \A e \in Elems(stored(qt)) : InRegion(qt.boundary, e)

C21_Witness ==
    /\ op = "replace"
    /\ ret # None
    /\ qt.points # <<>>
    /\ qt.children # None
    /\ \E i \in 1..4 : qt.children[1][i].points # <<>>

----------------------------------------------------------------------------
(* C22 *)

\* C22: in every state reached by insert, remove and replace, right after
\* remove(item) has returned true, contains(item) returns false and a full
\* query visits no item equal to item.
C22_RemovedIsGone ==
    (op = "remove" /\ ret = TRUE)
        => /\ ~contains(qt, arg)
           /\ \A e \in Elems(query(qt, None)) : ~eq(e, arg)

====
